---- MODULE Spec2Model ----
(***************************************************************************)
(* Model of the currency_api service: the start-up pipeline                *)
(*   ZipDownloader.get_file -> Unzipper.get_data -> pd.read_csv ->         *)
(*   DataFrame.dropna(axis=1, how='all')                                   *)
(* and the request handler  endpoint(date, currency)  that runs            *)
(* CurrencyExtractor.get_value against the module-level DataFrame.         *)
(*                                                                         *)
(* Texts that the program parses (CSV cells, the date of a query) are      *)
(* sequences of one-character strings, so that parsing and formatting are  *)
(* computed and not assumed.  Names that the program only compares         *)
(* (column names, archive member names) are strings.                       *)
(***************************************************************************)
EXTENDS Integers, Sequences, FiniteSets, TLC

\* ------------------------------------------------------------------ bounds

\* Rows of a CSV file.
MaxRows == 2
\* Entries of a zip archive.
MaxEntries == 2
\* Requests served by the running service (handled concurrently).
MaxRequests == 2

\* ------------------------------------------------------- program constants

\* tools.py: `if response.status_code != 200`
HTTP_OK == 200
\* currency_api.py: `return jsonify(error), 404`
HTTP_NOT_FOUND == 404

\* tools.py: the literal 'Date' of _validate_inputs and get_value
DateKey == "Date"
\* currency_api.py: the error body of endpoint
GenericError == "Something wrong happend, please read the log for more information"

\* ------------------------------------------------------------------- texts

Digits == {"0", "1", "2", "3", "4", "5", "6", "7", "8", "9"}

T_NA == <<"N", "/", "A">>
T_1_50 == <<"1", ".", "5", "0">>
T_7 == <<"7">>
T_D20 == <<"2", "0", "2", "3", "-", "1", "1", "-", "2", "0">>

\* The cell texts CSV files are built from: a null marker, a decimal with a
\* trailing zero, an integer, a date.
CellTexts == {T_NA, T_1_50, T_7, T_D20}

\* The dates and currencies requests ask for.
QueryDates == {T_D20, T_7}
QueryCurrencies == {"Date", "USD", "SEK", "ASD"}

\* The headers CSV files are built from (column names are unique, as
\* read_csv makes them).
Headers == {<<"Date", "USD">>, <<"USD", "Date">>, <<"USD", "SEK">>, <<"Date">>}

Range(s) == {s[i] : i \in 1..Len(s)}

SeqsUpTo(S, n) == UNION {[1..k -> S] : k \in 0..n}

\* The rightmost position of s holding ch, 0 when there is none.
LastIndexOf(s, ch) ==
    LET hits == {i \in 1..Len(s) : s[i] = ch}
    IN IF hits = {} THEN 0 ELSE CHOOSE i \in hits : \A j \in hits : j <= i

\* ------------------------------------------------------ pandas: read_csv

\* pandas' default na_values that the cell texts can spell.
NaValues == {<< >>, T_NA, <<"N", "a", "N">>, <<"N", "U", "L", "L">>}

IsNaText(t) == t \in NaValues

\* An integer literal: digits only.
IsIntText(t) == Len(t) > 0 /\ \A i \in 1..Len(t) : t[i] \in Digits

\* A decimal literal: digits with at most one point, at least one digit.
IsFloatText(t) ==
    LET points == {i \in 1..Len(t) : t[i] = "."}
    IN /\ Cardinality(points) <= 1
       /\ \A i \in 1..Len(t) : t[i] \in Digits \cup {"."}
       /\ \E i \in 1..Len(t) : t[i] \in Digits

RECURSIVE StripLeadingZeros(_)
StripLeadingZeros(s) ==
    IF Len(s) > 1 /\ s[1] = "0" THEN StripLeadingZeros(Tail(s)) ELSE s

RECURSIVE StripTrailingZeros(_)
StripTrailingZeros(s) ==
    IF Len(s) > 1 /\ s[Len(s)] = "0"
    THEN StripTrailingZeros(SubSeq(s, 1, Len(s) - 1))
    ELSE s

\* str(int(t)): the digits without leading zeros.
IntRepr(t) == StripLeadingZeros(t)

\* repr(float(t)) for a decimal literal within the float's precision: the
\* integer part without leading zeros, a point, the fraction without
\* trailing zeros, each at least one digit.
FloatRepr(t) ==
    LET p == LastIndexOf(t, ".")
        ip == IF p = 0 THEN t ELSE SubSeq(t, 1, p - 1)
        fp == IF p = 0 THEN << >> ELSE SubSeq(t, p + 1, Len(t))
    IN StripLeadingZeros(IF ip = << >> THEN <<"0">> ELSE ip)
       \o <<".">>
       \o StripTrailingZeros(IF fp = << >> THEN <<"0">> ELSE fp)

NaN == [kind |-> "nan", text |-> << >>]

\* The dtype read_csv infers for a column from its cell texts: int64 when
\* every cell is an integer literal, float64 when every cell is null or a
\* number, object (strings) otherwise and for a column without cells.
InferDtype(texts) ==
    IF texts = << >> THEN "object"
    ELSE IF \A i \in 1..Len(texts) : IsIntText(texts[i])
    THEN "int64"
    ELSE IF \A i \in 1..Len(texts) : IsNaText(texts[i]) \/ IsFloatText(texts[i])
         THEN "float64"
         ELSE "object"

\* One cell as stored in a column of the given dtype.
ParseCell(t, dtype) ==
    IF IsNaText(t) THEN NaN
    ELSE IF dtype = "int64" THEN [kind |-> "int", text |-> IntRepr(t)]
    ELSE IF dtype = "float64" THEN [kind |-> "float", text |-> FloatRepr(t)]
    ELSE [kind |-> "str", text |-> t]

\* A CSV file: a header and rows of cell texts aligned with it.
CsvFiles ==
    UNION {{[kind |-> "csv", header |-> h, rows |-> rs] :
                rs \in SeqsUpTo([1..Len(h) -> CellTexts], MaxRows)} :
           h \in Headers}

\* Bytes that read_csv cannot parse (it raises EmptyDataError, ParserError
\* or UnicodeDecodeError).
Garbage == [kind |-> "garbage", header |-> << >>, rows |-> << >>]

NoData == [kind |-> "none", header |-> << >>, rows |-> << >>]

ColumnTexts(csv, c) == [r \in 1..Len(csv.rows) |-> csv.rows[r][c]]

\* pd.read_csv(buffer): the frame's columns are the header, each column's
\* cells are parsed under the column's inferred dtype.
ReadCsv(csv) ==
    [kind |-> "df",
     columns |-> csv.header,
     rows |-> [r \in 1..Len(csv.rows) |->
                 [c \in 1..Len(csv.header) |->
                    ParseCell(csv.rows[r][c], InferDtype(ColumnTexts(csv, c)))]]]

ReadCsvRaises(raw) == raw.kind # "csv"

\* ------------------------------------------------------- pandas: dropna

IsNa(v) == v.kind = "nan"

\* The positions a pruning that spares the date key would keep
\* (dropna over the columns other than 'Date').
KeptColumnsSparingDateKey(df) ==
    {c \in 1..Len(df.columns) :
        df.columns[c] = DateKey \/ \E r \in 1..Len(df.rows) : ~IsNa(df.rows[r][c])}

\* The positions kept by dropna(axis=1, how='all'): a column goes when no
\* row holds a non-null value in it (every column of a frame without rows).
KeptColumns(df) ==
    {c \in 1..Len(df.columns) : \E r \in 1..Len(df.rows) : ~IsNa(df.rows[r][c])}

RECURSIVE SelectPositions(_, _, _)
SelectPositions(s, keep, i) ==
    IF i > Len(s) THEN << >>
    ELSE (IF i \in keep THEN <<s[i]>> ELSE << >>) \o SelectPositions(s, keep, i + 1)

\* df.dropna(axis=1, how='all', inplace=True)
DropNa(df) ==
    LET keep == KeptColumns(df)
    IN [kind |-> "df",
        columns |-> SelectPositions(df.columns, keep, 1),
        rows |-> [r \in 1..Len(df.rows) |-> SelectPositions(df.rows[r], keep, 1)]]

NoFrame == [kind |-> "none", columns |-> << >>, rows |-> << >>]

\* ------------------------------------------------------------------ errors

NoDate == << >>

NoError == [type |-> "none", what |-> "", name |-> "", date |-> NoDate, code |-> 0]

Err(type, what) ==
    [type |-> type, what |-> what, name |-> "", date |-> NoDate, code |-> 0]

\* requests.RequestException raised by requests.get
TransportError == Err("RequestException", "transport")

\* HTTPError(f"HTTP error {response.status_code}")
HttpStatusError(code) == [Err("HTTPError", "HTTP error") EXCEPT !.code = code]

\* zipfile.BadZipFile raised by zipfile.ZipFile(...)
ArchiveFormatError == Err("BadZipFile", "File is not a zip file")

\* FileNotFoundError(f"Specified file not found: {self.file_to_extract}")
MemberNotFoundError(name) ==
    [Err("FileNotFoundError", "Specified file not found") EXCEPT !.name = name]

\* The error read_csv raises on bytes it cannot parse.
MalformedTableError == Err("ParserError", "Error tokenizing data")

\* Exception(f"Currency not available: {self.currency}")
CurrencyNotAvailable(currency) ==
    [Err("Exception", "Currency not available") EXCEPT !.name = currency]

\* Exception(f"Date not available: {self.date}")
DateNotAvailable(date) ==
    [Err("Exception", "Date not available") EXCEPT !.date = date]

\* Exception(f"Currency data not available: {self.currency}, {self.date}")
DataNotAvailable(currency, date) ==
    [Err("Exception", "Currency data not available")
        EXCEPT !.name = currency, !.date = date]

\* KeyError('Date') raised by df['Date'] on a frame without that column
KeyErrorDate == Err("KeyError", DateKey)

\* The call a log record was written in: the operation and, for a request,
\* its number.
Call(op, r) == [op |-> op, r |-> r]

\* A log record; `call` names the call that wrote it.
LogEntry(level, site, call, err) ==
    [level |-> level, site |-> site, call |-> call, err |-> err]

\* ------------------------------------------------- tools.py: ZipDownloader

\* The status codes the remote server answers with.
StatusCodes == {HTTP_OK, 201, 204, 301, HTTP_NOT_FOUND, 500}

\* A check that lets every 2xx status through, not 200 alone.
CheckResponseRaises2xx(status) == status < 200 \/ status >= 300

\* _check_response: raises HTTPError when the status code is not 200.
CheckResponseRaises(status) == status # HTTP_OK

\* The log records get_file and _make_request write for one call, in order.
\* A RequestException is logged by _make_request and, re-raised, again by
\* get_file.
FetchLog(resp) ==
    IF resp.kind = "transport"
    THEN <<LogEntry("error", "_make_request", Call("fetch", 0), TransportError),
           LogEntry("error", "get_file", Call("fetch", 0), TransportError)>>
    ELSE IF CheckResponseRaises(resp.status)
    THEN <<LogEntry("error", "get_file", Call("fetch", 0), HttpStatusError(resp.status))>>
    ELSE <<LogEntry("info", "get_file", Call("fetch", 0), NoError)>>

\* The error get_file raises, NoError when it returns.
FetchError(resp) ==
    IF resp.kind = "transport" THEN TransportError
    ELSE IF CheckResponseRaises(resp.status) THEN HttpStatusError(resp.status)
    ELSE NoError

\* ------------------------------------------------------ tools.py: Unzipper

MemberNames == {"data.csv", "Data.csv", "data.csv "}

NoBlob == [kind |-> "none", entries |-> << >>]

\* Bytes that are not a zip archive.
BadZip == [kind |-> "bad", entries |-> << >>]

Zip(entries) == [kind |-> "zip", entries |-> entries]

Entry(name, data) == [name |-> name, data |-> data]

\* The positions of the entries named `name`, compared as == compares.
Matching(zip, name) == {i \in 1..Len(zip.entries) : zip.entries[i].name = name}

\* The entry a loop that keeps overwriting its result would end with.
LastMatch(zip, name) ==
    CHOOSE i \in Matching(zip, name) : \A j \in Matching(zip, name) : j <= i

\* The entry the loop over infolist() returns from: the first, in stored
\* order, whose filename equals file_to_extract.
FirstMatch(zip, name) ==
    CHOOSE i \in Matching(zip, name) : \A j \in Matching(zip, name) : i <= j

\* The error get_data raises, NoError when it returns.
ExtractError(blob, name) ==
    IF blob.kind # "zip" THEN ArchiveFormatError
    ELSE IF Matching(blob, name) = {} THEN MemberNotFoundError(name)
    ELSE NoError

\* The bytes get_data returns.
ExtractData(blob, name) ==
    IF ExtractError(blob, name) # NoError THEN NoData
    ELSE blob.entries[FirstMatch(blob, name)].data

\* The log records get_data and _extract_file write for one call, in order.
\* An error raised inside _extract_file is logged there and, re-raised,
\* again by get_data.
ExtractLog(blob, name, call) ==
    IF blob.kind # "zip"
    THEN <<LogEntry("error", "get_data", call, ArchiveFormatError)>>
    ELSE IF Matching(blob, name) = {}
    THEN <<LogEntry("error", "_extract_file", call, MemberNotFoundError(name)),
           LogEntry("error", "get_data", call, MemberNotFoundError(name))>>
    ELSE <<LogEntry("info", "_extract_file", call, NoError)>>

\* --------------------------------------------- tools.py: CurrencyExtractor

HasColumn(df, name) == name \in Range(df.columns)

ColumnIndex(df, name) == CHOOSE c \in 1..Len(df.columns) : df.columns[c] = name

\* df['Date'] == date: the rows whose date is the string `date` (a number
\* or a null never equals a string).
DateMatches(df, date) ==
    {r \in 1..Len(df.rows) :
        LET v == df.rows[r][ColumnIndex(df, DateKey)]
        IN v.kind = "str" /\ v.text = date}

\* _validate_inputs: the error it raises, NoError when it returns.
ValidateInputs(df, date, currency) ==
    IF ~HasColumn(df, currency) \/ currency = DateKey
    THEN CurrencyNotAvailable(currency)
    ELSE IF ~HasColumn(df, DateKey) THEN KeyErrorDate
    ELSE IF DateMatches(df, date) = {} THEN DateNotAvailable(date)
    ELSE NoError

\* result[0] of df.loc[df['Date'] == date, currency].values: the value of
\* the first matching row.
ReadValue(df, date, currency) ==
    LET r == CHOOSE r \in DateMatches(df, date) :
                 \A q \in DateMatches(df, date) : r <= q
    IN df.rows[r][ColumnIndex(df, currency)]

\* The rest of get_value after validation: the error it raises (result[0]
\* of an empty selection raises IndexError).
ReadError(df, date, currency) ==
    IF ~HasColumn(df, DateKey) THEN KeyErrorDate
    ELSE IF ~HasColumn(df, currency) THEN Err("KeyError", currency)
    ELSE IF DateMatches(df, date) = {} THEN Err("IndexError", "index 0 is out of bounds")
    ELSE IF IsNa(ReadValue(df, date, currency))
    THEN DataNotAvailable(currency, date)
    ELSE NoError

\* get_value as a whole: the error it raises, NoError when it returns.
GetValueError(df, date, currency) ==
    IF ValidateInputs(df, date, currency) # NoError
    THEN ValidateInputs(df, date, currency)
    ELSE ReadError(df, date, currency)

\* A frame a handler filtered in place.
FrameFiltered(df, date, currency) ==
    [df EXCEPT !.rows = SelectPositions(df.rows, DateMatches(df, date), 1)]

\* The shared frame after get_value read it: .loc and .values only read.
FrameAfterRead(df, date, currency) == df

\* ------------------------------------------------- currency_api.py: endpoint

NoValue == [kind |-> "none", text |-> << >>]

\* json's encoding of a value: a str as a string, a float (numpy.float64 is
\* a float) as a number; numpy.int64 is no int and raises TypeError.
JsonType(v) ==
    IF v.kind = "str" THEN "string"
    ELSE IF v.kind \in {"float", "nan"} THEN "number"
    ELSE "unserializable"

NoResponse ==
    [status |-> 0, keys |-> {}, currency |-> "", date |-> NoDate,
     json |-> "none", value |-> << >>, error |-> ""]

\* jsonify(error), 404
ErrorResponse ==
    [status |-> HTTP_NOT_FOUND, keys |-> {"error"}, currency |-> "", date |-> NoDate,
     json |-> "none", value |-> << >>, error |-> GenericError]

\* jsonify(result), with the default status
SuccessResponse(date, currency, v) ==
    [status |-> HTTP_OK, keys |-> {"currency", "date", "value"},
     currency |-> currency, date |-> date,
     json |-> JsonType(v), value |-> v.text, error |-> ""]

\* The response of endpoint: the result of get_value serialized, and the
\* generic 404 for whatever was raised inside the try block, by get_value
\* or by jsonify.
EndpointResponse(date, currency, err, v) ==
    IF err # NoError THEN ErrorResponse
    ELSE IF JsonType(v) = "unserializable" THEN ErrorResponse
    ELSE SuccessResponse(date, currency, v)

\* ------------------------------------------------------------------- state

VARIABLES
    pc,              \* where the module-level code of currency_api.py stands
    file_to_extract, \* os.getenv("FILE_TO_EXTRACT")
    response,        \* what requests.get met: a response or a transport failure
    requestsMade,    \* the calls of requests.get so far
    zipped_data,     \* the BytesIO get_file returned, held by the Unzipper
    member,          \* the BytesIO get_data returned
    member2,         \* what a second get_data on the same Unzipper returned
    df,              \* the module-level DataFrame
    built,           \* the DataFrame as it was when the build ended
    raised,          \* the exception that ended the start-up, NoError if none
    log,             \* the records written through logging, in order
    stages,          \* the start-up stages run so far, in order
    reqs             \* the requests: each handler's position and locals

vars == <<pc, file_to_extract, response, requestsMade, zipped_data, member,
          member2, df, built, raised, log, stages, reqs>>

\* The CSV files the remote archive is built from.
CsvA == [kind |-> "csv", header |-> <<"Date", "USD">>,
         rows |-> <<<<T_D20, T_1_50>>, <<T_7, T_NA>>>>]
CsvB == [kind |-> "csv", header |-> <<"USD", "SEK">>, rows |-> <<<<T_7, T_NA>>>>]
CsvC == [kind |-> "csv", header |-> <<"Date", "USD">>, rows |-> <<<<T_D20, T_7>>>>]

\* The bodies the remote server answers with.
ServerBodies ==
    {Zip(<<Entry("data.csv", CsvA)>>),
     Zip(<<Entry("Data.csv", CsvA), Entry("data.csv", CsvC)>>),
     Zip(<<Entry("data.csv", CsvB)>>),
     Zip(<<Entry("data.csv", Garbage)>>),
     BadZip}

TransportFailure == [kind |-> "transport", status |-> 0, body |-> NoBlob]

Response(status, body) == [kind |-> "resp", status |-> status, body |-> body]

Responses ==
    {TransportFailure} \cup {Response(s, b) : s \in StatusCodes, b \in ServerBodies}

\* The archives get_data is run on: no archive, and every archive of up to
\* MaxEntries entries.
Archives ==
    {BadZip} \cup
    {Zip(es) : es \in SeqsUpTo({Entry(n, d) : n \in MemberNames, d \in {CsvA, Garbage}},
                               MaxEntries)}

Requests == 1..MaxRequests

NewRequest ==
    [pc |-> "new", date |-> NoDate, currency |-> "", err |-> NoError,
     value |-> NoValue, resp |-> NoResponse]

\* An exception at module level is caught by nothing and ends the import
\* with it; a variant that swallows it goes on.
StartupPcSwallow(next, err) == next

\* Where the module-level code stands after a stage: at the next stage, or
\* nowhere when the stage raised.
StartupPc(next, err) == IF err = NoError THEN next ELSE "aborted"

\* ----------------------------------------------------------------- actions

\* zip_downloader.get_file()
Fetch ==
    /\ pc = "fetch"
    /\ \E resp \in Responses :
         /\ response' = resp
         /\ requestsMade' = requestsMade + 1
         /\ zipped_data' = IF FetchError(resp) = NoError THEN resp.body ELSE NoBlob
         /\ log' = log \o FetchLog(resp)
         /\ raised' = FetchError(resp)
         /\ pc' = StartupPc("extract", FetchError(resp))
    /\ stages' = Append(stages, "fetch")
    /\ UNCHANGED <<file_to_extract, member, member2, df, built, reqs>>

\* unzipper.get_data()
Extract ==
    /\ pc = "extract"
    /\ member' = ExtractData(zipped_data, file_to_extract)
    /\ log' = log \o ExtractLog(zipped_data, file_to_extract, Call("extract", 0))
    /\ raised' = ExtractError(zipped_data, file_to_extract)
    /\ pc' = StartupPc("build", ExtractError(zipped_data, file_to_extract))
    /\ stages' = Append(stages, "extract")
    /\ UNCHANGED <<file_to_extract, response, requestsMade, zipped_data, member2,
                   df, built, reqs>>

\* A second unzipper.get_data() on the same Unzipper, as test_unzipper makes.
ExtractAgain ==
    /\ pc = "build"
    /\ member2 = NoData
    /\ member2' = ExtractData(zipped_data, file_to_extract)
    /\ log' = log \o ExtractLog(zipped_data, file_to_extract, Call("extract2", 0))
    /\ UNCHANGED <<pc, file_to_extract, response, requestsMade, zipped_data, member,
                   df, built, raised, stages, reqs>>

\* df = pd.read_csv(...); df.dropna(axis=1, how='all', inplace=True)
Build ==
    /\ pc = "build"
    /\ LET err == IF ReadCsvRaises(member) THEN MalformedTableError ELSE NoError
           frame == IF err = NoError THEN DropNa(ReadCsv(member)) ELSE NoFrame
       IN /\ df' = frame
          /\ built' = frame
          /\ raised' = err
          /\ pc' = StartupPc("serving", err)
    /\ stages' = Append(stages, "build")
    /\ UNCHANGED <<file_to_extract, response, requestsMade, zipped_data, member,
                   member2, log, reqs>>

\* A request GET /<date>/<currency> reaches endpoint, which constructs the
\* CurrencyExtractor.
Arrive(r, date, currency) ==
    /\ pc = "serving"
    /\ reqs[r].pc = "new"
    /\ \A q \in Requests : q < r => reqs[q].pc # "new"
    /\ reqs' = [reqs EXCEPT ![r] = [@ EXCEPT !.pc = "validate", !.date = date,
                                              !.currency = currency]]
    /\ UNCHANGED <<pc, file_to_extract, response, requestsMade, zipped_data, member,
                   member2, df, built, raised, log, stages>>

\* get_value: self._validate_inputs(), its error logged by get_value.
ReqValidate(r) ==
    /\ reqs[r].pc = "validate"
    /\ LET err == ValidateInputs(df, reqs[r].date, reqs[r].currency)
       IN /\ reqs' = [reqs EXCEPT ![r] =
                        [@ EXCEPT !.pc = IF err = NoError THEN "read" ELSE "respond",
                                  !.err = err]]
          /\ log' = IF err = NoError THEN log
                    ELSE Append(log, LogEntry("error", "get_value", Call("request", r), err))
    /\ UNCHANGED <<pc, file_to_extract, response, requestsMade, zipped_data, member,
                   member2, df, built, raised, stages>>

\* get_value: the selection, the null check and the result dictionary.
ReqRead(r) ==
    /\ reqs[r].pc = "read"
    /\ LET err == ReadError(df, reqs[r].date, reqs[r].currency)
           v == IF err = NoError
                THEN ReadValue(df, reqs[r].date, reqs[r].currency)
                ELSE NoValue
       IN /\ reqs' = [reqs EXCEPT ![r] =
                        [@ EXCEPT !.pc = "respond", !.err = err, !.value = v]]
          /\ log' = IF err = NoError THEN log
                    ELSE Append(log, LogEntry("error", "get_value", Call("request", r), err))
    /\ df' = FrameAfterRead(df, reqs[r].date, reqs[r].currency)
    /\ UNCHANGED <<pc, file_to_extract, response, requestsMade, zipped_data, member,
                   member2, built, raised, stages>>

\* endpoint: jsonify of the result, or of the generic error.
ReqRespond(r) ==
    /\ reqs[r].pc = "respond"
    /\ reqs' = [reqs EXCEPT ![r] =
                  [@ EXCEPT !.pc = "done",
                            !.resp = EndpointResponse(reqs[r].date, reqs[r].currency,
                                                      reqs[r].err, reqs[r].value)]]
    /\ UNCHANGED <<pc, file_to_extract, response, requestsMade, zipped_data, member,
                   member2, df, built, raised, log, stages>>

\* ---------------------------------------------------------- specifications

\* The whole program: the start-up, then MaxRequests concurrent requests.
Init ==
    /\ pc = "fetch"
    /\ file_to_extract \in MemberNames
    /\ response = TransportFailure
    /\ requestsMade = 0
    /\ zipped_data = NoBlob
    /\ member = NoData
    /\ member2 = NoData
    /\ df = NoFrame
    /\ built = NoFrame
    /\ raised = NoError
    /\ log = << >>
    /\ stages = << >>
    /\ reqs = [r \in Requests |-> NewRequest]

Next ==
    \/ Fetch
    \/ Extract
    \/ Build
    \/ \E r \in Requests, d \in QueryDates, c \in QueryCurrencies : Arrive(r, d, c)
    \/ \E r \in Requests : ReqValidate(r)
    \/ \E r \in Requests : ReqRead(r)
    \/ \E r \in Requests : ReqRespond(r)

Spec == Init /\ [][Next]_vars

\* The Unzipper on every archive: get_data, and get_data again.
InitExtract ==
    /\ pc = "extract"
    /\ file_to_extract \in MemberNames
    /\ zipped_data \in Archives
    /\ response = Response(HTTP_OK, zipped_data)
    /\ requestsMade = 1
    /\ member = NoData
    /\ member2 = NoData
    /\ df = NoFrame
    /\ built = NoFrame
    /\ raised = NoError
    /\ log = FetchLog(response)
    /\ stages = <<"fetch">>
    /\ reqs = [r \in Requests |-> NewRequest]

NextExtract == Extract \/ ExtractAgain

SpecExtract == InitExtract /\ [][NextExtract]_vars

\* The table on every CSV file: the build, then requests one at a time.
InitTable ==
    /\ pc = "build"
    /\ file_to_extract = "data.csv"
    /\ member \in CsvFiles \cup {Garbage}
    /\ zipped_data = Zip(<<Entry(file_to_extract, member)>>)
    /\ response = Response(HTTP_OK, zipped_data)
    /\ requestsMade = 1
    /\ member2 = NoData
    /\ df = NoFrame
    /\ built = NoFrame
    /\ raised = NoError
    /\ log = FetchLog(response) \o ExtractLog(zipped_data, file_to_extract, Call("extract", 0))
    /\ stages = <<"fetch", "extract">>
    /\ reqs = [r \in Requests |-> NewRequest]

NextTable ==
    \/ Build
    \/ \E d \in QueryDates, c \in QueryCurrencies : Arrive(1, d, c)
    \/ ReqValidate(1)
    \/ ReqRead(1)
    \/ ReqRespond(1)

SpecTable == InitTable /\ [][NextTable]_vars

\* ------------------------------------------------------------------ claims

AllStages == <<"fetch", "extract", "build">>

\* The requests whose get_value has ended, by return or by raise.
Looked == {r \in Requests : reqs[r].pc \in {"respond", "done"}}

Answered == {r \in Requests : reqs[r].pc = "done"}

HeaderIndex(csv, name) == CHOOSE c \in 1..Len(csv.header) : csv.header[c] = name

\* The rows of the CSV file whose date cell spells `date`.
CsvDateRows(csv, date) ==
    IF DateKey \notin Range(csv.header) THEN {}
    ELSE {r \in 1..Len(csv.rows) : csv.rows[r][HeaderIndex(csv, DateKey)] = date}

\* The cell text of the first row of the CSV file dated `date`.
CsvCell(csv, date, currency) ==
    LET r == CHOOSE r \in CsvDateRows(csv, date) :
                 \A q \in CsvDateRows(csv, date) : r <= q
    IN csv.rows[r][HeaderIndex(csv, currency)]

\* The rows of the frame keyed by the string `date`.
KeyedRows(t, date) ==
    IF DateKey \notin Range(t.columns) THEN {}
    ELSE {r \in 1..Len(t.rows) :
            LET v == t.rows[r][CHOOSE c \in 1..Len(t.columns) : t.columns[c] = DateKey]
            IN v.kind = "str" /\ v.text = date}

\* The outcome the four ordered rules of the lookup contract give.
RuleOutcome(t, date, currency) ==
    IF currency \notin Range(t.columns) \/ currency = DateKey
    THEN CurrencyNotAvailable(currency)
    ELSE IF KeyedRows(t, date) = {} THEN DateNotAvailable(date)
    ELSE LET r == CHOOSE r \in KeyedRows(t, date) : \A q \in KeyedRows(t, date) : r <= q
             v == t.rows[r][CHOOSE c \in 1..Len(t.columns) : t.columns[c] = currency]
         IN IF v.kind = "nan" THEN DataNotAvailable(currency, date) ELSE NoError

\* C1 (as claimed; refuted under SpecTable): for every built table and every
\* query, get_value ends with the outcome of the first applicable rule:
\* currency unknown or 'Date' -> CurrencyNotAvailable; date the key of no
\* row -> DateNotAvailable; first matching value null -> DataNotAvailable;
\* otherwise success.
C1_LookupRuleOrder ==
    \A r \in Looked :
        reqs[r].err = RuleOutcome(df, reqs[r].date, reqs[r].currency)

\* C2 (as claimed; refuted under SpecTable): when the CSV file holds a
\* non-null cell for (date, currency), the request is answered with the
\* query's own currency and date and with the cell's text as a string.
C2_RoundTripKeepsText ==
    \A r \in Answered :
        LET d == reqs[r].date
            c == reqs[r].currency
        IN (/\ member.kind = "csv"
            /\ c \in Range(member.header)
            /\ c # DateKey
            /\ CsvDateRows(member, d) # {}
            /\ ~IsNaText(CsvCell(member, d, c)))
           => /\ reqs[r].err = NoError
              /\ reqs[r].resp.status = HTTP_OK
              /\ reqs[r].resp.currency = c
              /\ reqs[r].resp.date = d
              /\ reqs[r].resp.json = "string"
              /\ reqs[r].resp.value = CsvCell(member, d, c)

\* C3 (as claimed; refuted under SpecTable): a request whose lookup fails is
\* answered 404 with the generic error body, whatever the error; a request
\* whose lookup succeeds is answered with the success status and exactly
\* the keys currency, date, value.
C3_HttpBoundary ==
    \A r \in Answered :
        IF reqs[r].err # NoError
        THEN reqs[r].resp = ErrorResponse
        ELSE /\ reqs[r].resp.status = HTTP_OK
             /\ reqs[r].resp.keys = {"currency", "date", "value"}

\* The header's names whose column holds a non-null cell in some row.
CsvNonNullColumns(csv) ==
    {csv.header[c] : c \in {c \in 1..Len(csv.header) :
        \E r \in 1..Len(csv.rows) : ~IsNaText(csv.rows[r][c])}}

C5_FetchOutcome ==
    stages # << >> =>
        /\ requestsMade = 1
        /\ IF response.kind = "resp" /\ response.status = HTTP_OK
           THEN /\ zipped_data = response.body
                /\ stages = <<"fetch">> => (raised = NoError /\ pc = "extract")
           ELSE /\ zipped_data = NoBlob
                /\ pc = "aborted"
                /\ stages = <<"fetch">>
                /\ raised = IF response.kind = "transport"
                            THEN TransportError
                            ELSE HttpStatusError(response.status)

\* A 204 answer carrying a valid archive was refused.
C5_Witness ==
    /\ stages = <<"fetch">>
    /\ response.kind = "resp"
    /\ response.status = 204
    /\ response.body.kind = "zip"
    /\ raised = HttpStatusError(204)
    /\ zipped_data = NoBlob

\* C6 (SpecExtract): on a valid archive get_data returns the data of the
\* first entry, in stored order, whose name equals file_to_extract exactly,
\* raises FileNotFoundError iff no entry has that name, and returns the same
\* bytes when called again.
C6_ExtractFirstExactMatch ==
    ("extract" \in Range(stages) /\ zipped_data.kind = "zip") =>
        LET es == zipped_data.entries
            hits == {i \in 1..Len(es) : es[i].name = file_to_extract}
        IN /\ hits = {} <=> raised = MemberNotFoundError(file_to_extract)
           /\ hits = {} => (member = NoData /\ pc = "aborted")
           /\ hits # {} =>
                /\ raised = NoError
                /\ \E i \in hits : (\A j \in hits : i <= j) /\ member = es[i].data
                /\ member2 # NoData => member2 = member

\* A member named Data.csv was passed over for the later data.csv, twice.
C6_Witness ==
    /\ zipped_data = Zip(<<Entry("Data.csv", CsvA), Entry("data.csv", Garbage)>>)
    /\ file_to_extract = "data.csv"
    /\ member = Garbage
    /\ member2 = Garbage

IsPrefix(s, t) == Len(s) <= Len(t) /\ \A i \in 1..Len(s) : s[i] = t[i]

\* C7 (Spec): the stages run in the order fetch, extract, build, each at
\* most once; a request is handled only after all three ran and the table
\* exists; a stage that raises ends the start-up: no later stage has run and
\* no request is ever handled.
C7_StartupOrder ==
    /\ IsPrefix(stages, AllStages)
    /\ pc = "serving" => (stages = AllStages /\ df.kind = "df" /\ raised = NoError)
    /\ \A r \in Requests :
          reqs[r].pc # "new" => (pc = "serving" /\ stages = AllStages /\ df.kind = "df")
    /\ (raised # NoError) <=> (pc = "aborted")
    /\ pc = "aborted" =>
          /\ df = NoFrame
          /\ \A r \in Requests : reqs[r].pc = "new"
          /\ raised.type \in {"RequestException", "HTTPError"} => stages = <<"fetch">>
          /\ raised.type \in {"BadZipFile", "FileNotFoundError"}
                => stages = <<"fetch", "extract">>
          /\ raised.type = "ParserError" => stages = AllStages
    /\ pc = "extract" => stages = <<"fetch">>
    /\ pc = "build" => stages = <<"fetch", "extract">>

\* The extraction failed and the build never ran.
C7_Witness ==
    /\ pc = "aborted"
    /\ stages = <<"fetch", "extract">>
    /\ raised = MemberNotFoundError(file_to_extract)

\* The log records of a level written in a call.
Logged(level, call) ==
    {i \in 1..Len(log) : log[i].level = level /\ log[i].call = call}

\* C8 (as claimed; refuted under Spec): every failure of fetch, extract or
\* lookup writes exactly one error record, carrying the error that reaches
\* the caller; a successful lookup writes none; a successful fetch and a
\* successful extract write one informational record each.
C8_LogOncePerFailure ==
    /\ (pc = "aborted" /\ stages = <<"fetch">>) =>
          /\ Cardinality(Logged("error", Call("fetch", 0))) = 1
          /\ \A i \in Logged("error", Call("fetch", 0)) : log[i].err = raised
    /\ (pc = "aborted" /\ stages = <<"fetch", "extract">>) =>
          /\ Cardinality(Logged("error", Call("extract", 0))) = 1
          /\ \A i \in Logged("error", Call("extract", 0)) : log[i].err = raised
    /\ (Len(stages) >= 1 /\ zipped_data # NoBlob) =>
          /\ Cardinality(Logged("info", Call("fetch", 0))) = 1
          /\ Logged("error", Call("fetch", 0)) = {}
    /\ (Len(stages) >= 2 /\ member # NoData) =>
          /\ Cardinality(Logged("info", Call("extract", 0))) = 1
          /\ Logged("error", Call("extract", 0)) = {}
    /\ \A r \in Looked :
          /\ Logged("info", Call("request", r)) = {}
          /\ IF reqs[r].err = NoError
             THEN Logged("error", Call("request", r)) = {}
             ELSE /\ Cardinality(Logged("error", Call("request", r))) = 1
                  /\ \A i \in Logged("error", Call("request", r)) :
                        log[i].err = reqs[r].err

\* The response a request for (date, currency) gets when it is the only one
\* ever run against the table t: get_value and jsonify in one piece.
AloneResponse(t, date, currency) ==
    LET err == GetValueError(t, date, currency)
    IN EndpointResponse(date, currency, err,
                        IF err = NoError THEN ReadValue(t, date, currency) ELSE NoValue)

\* C9 (Spec): once built, the table is changed by no step of any request,
\* whatever the interleaving, and every answer is the one the request would
\* get alone on the table as built.
C9_LookupsLeaveTable ==
    [][/\ pc = "serving" => (df' = df /\ df' = built /\ built' = built)
       /\ \A r \in Requests :
             reqs'[r].pc = "done" =>
                 reqs'[r].resp = AloneResponse(built', reqs'[r].date, reqs'[r].currency)]_vars

\* A failing request was answered while a validated one waits to read.
C9_Witness ==
    /\ reqs[1].pc = "read"
    /\ reqs[2].pc = "done"
    /\ reqs[2].err # NoError
    /\ df = built

\* C10 (as claimed; refuted under SpecTable): whatever table the build
\* produced, get_value returns or raises one of CurrencyNotAvailable,
\* DateNotAvailable, DataNotAvailable, and nothing else.
C10_ClosedTaxonomy ==
    \A r \in Looked :
        \/ reqs[r].err = NoError
        \/ reqs[r].err = CurrencyNotAvailable(reqs[r].currency)
        \/ reqs[r].err = DateNotAvailable(reqs[r].date)
        \/ reqs[r].err = DataNotAvailable(reqs[r].currency, reqs[r].date)

====
